---- MODULE Spec2Model ----
(***************************************************************************)
(* A model of YTDownloader: the service layer                             *)
(* (src/downloader_service.py), the CLI and its menu (src/cli.py), the     *)
(* launcher (src/launcher.py), the options of the standalone downloader    *)
(* (src/app.py) and the GUI with its background threads (src/gui.py).      *)
(*                                                                         *)
(* Spec is the service, the CLI, the launcher and app.py; SpecDir is the   *)
(* service with its output directory on the file system; SpecGui is the    *)
(* GUI, and FairSpecGui is the GUI with its threads and event loop         *)
(* running.                                                                *)
(*                                                                         *)
(* Python values are modelled as follows.                                  *)
(*  - An optional value is a tuple: None is <<>>, a value v is <<v>>.      *)
(*  - A dict is a function whose DOMAIN is the set of keys that are        *)
(*    present, so dict.get(k, default) can tell a missing key from a key   *)
(*    that holds None.                                                     *)
(*  - A URL is a tuple of one-character strings, so that Python's          *)
(*    substring test `needle in url` is computed, not assumed.             *)
(*  - A yt-dlp format-selection string is the tuple of its lexical tokens  *)
(*    ("bestvideo", "[", "height", "<=", "2160", "]", "+", "/", ...).      *)
(***************************************************************************)
EXTENDS Integers, Sequences, FiniteSets, TLC

VARIABLES
    op,              \* the operation that ran last ("init" before any)
    url,             \* the URL it was given
    request,         \* its other arguments (quality, audio_only, output_format)
    reported,        \* what the extractor reported during the call (raw formats)
    outcome,         \* "ok" when the operation returned, "error" when it raised
    ret,             \* the returned value, or the raised error
    extract_calls,   \* extract_info invocations made during the call
    download_calls,  \* ydl.download invocations made during the call
    ydl_opts,        \* the options handed to the downloader, None when none was built
    output_dir,      \* the service's output directory, as path components
    menu,            \* the CLI interactive menu: pc, options, cancel_num
    transfers,       \* what the downloader did each time it was invoked during the call
    cli,             \* one run of the CLI: position, arguments, answer, downloads made
    disk,            \* the directories that exist, as absolute paths
    gui              \* the GUI: widgets, selection, background workers, posted callbacks

vars == <<op, url, request, reported, outcome, ret, extract_calls, download_calls,
          ydl_opts, output_dir, menu, transfers, cli, disk, gui>>

-----------------------------------------------------------------------------
(* Bounds *)

\* Longest catalog of raw formats enumerated exhaustively.
MaxCatalog == 2

\* Longest command line given to the launcher.
MaxArgs == 3

\* Most background threads of the GUI alive at once.
MaxWorkers == 2

\* Most callbacks waiting for the GUI's interface thread.
MaxPosted == 2

-----------------------------------------------------------------------------
(* Python values *)

None == <<>>
Some(v) == <<v>>

\* dict.get(key, default)
Get(d, key, default) == IF key \in DOMAIN d THEN d[key] ELSE default

\* Truthiness of an optional number: None and 0 are falsy.
Truthy(x) == x # None /\ x[1] # 0

\* str(x) of an optional number, as an f-string or str() renders it.
StrNum(x) == IF x = None THEN "None" ELSE ToString(x[1])

\* str(x) of an optional string, as an f-string renders it.
StrText(x) == IF x = None THEN "None" ELSE x[1]

\* Python's `needle in hay` on strings.
Contains(hay, needle) ==
    \E i \in 0..(Len(hay) - Len(needle)) : SubSeq(hay, i + 1, i + Len(needle)) = needle

-----------------------------------------------------------------------------
(* URLs *)

YoutubeCom == <<"y","o","u","t","u","b","e",".","c","o","m">>
YoutuBe == <<"y","o","u","t","u",".","b","e">>

UrlEmpty == <<>>
UrlWatch == <<"y","o","u","t","u","b","e",".","c","o","m","/","w">>
UrlShort == <<"y","o","u","t","u",".","b","e","/","x">>
UrlEmbedded == <<"e",".","c","o","/","?","y","o","u","t","u",".","b","e">>
UrlVimeo == <<"v","i","m","e","o",".","c","o","m","/","1">>
UrlNearMiss == <<"y","o","u","t","u","b","e",".","c","o">>
UrlUpper == <<"Y","O","U","T","U","B","E",".","C","O","M">>

Urls == {UrlEmpty, UrlWatch, UrlShort, UrlEmbedded, UrlVimeo, UrlNearMiss, UrlUpper}

validate_url(u) == u # <<>> /\ (Contains(u, YoutubeCom) \/ Contains(u, YoutuBe))

-----------------------------------------------------------------------------
(* Raw stream descriptors, as the extractor reports them *)

Raw(id, ext, vcodec, acodec, height, fps, filesize, abr) ==
    [format_id |-> id, ext |-> ext, vcodec |-> vcodec, acodec |-> acodec,
     height |-> height, fps |-> fps, filesize |-> filesize, abr |-> abr]

V2160 == Raw(Some("313"), Some("webm"), Some("vp9"), Some("none"),
             Some(2160), Some(30), Some(3145728), None)
VA1080 == Raw(Some("37"), Some("mp4"), Some("avc1"), Some("mp4a"),
              Some(1080), Some(30), Some(2097152), None)
V1080 == Raw(Some("137"), Some("mp4"), Some("avc1"), Some("none"),
             Some(1080), Some(60), None, None)
VA720 == Raw(Some("22"), Some("mp4"), Some("avc1"), Some("mp4a"),
             Some(720), Some(30), Some(1048575), None)
VA720w == Raw(Some("45"), Some("webm"), Some("vp8"), Some("vorbis"),
              Some(720), None, None, None)
A128 == Raw(Some("140"), Some("m4a"), Some("none"), Some("mp4a"),
            None, None, Some(1048576), Some(128))
A128drc == Raw(Some("140-drc"), Some("m4a"), Some("none"), Some("mp4a"),
               None, None, None, Some(128))
A160 == Raw(Some("251"), Some("webm"), Some("none"), Some("opus"),
            None, None, None, Some(160))
A48 == Raw(Some("139"), Some("m4a"), Some("none"), Some("mp4a"),
           None, None, None, Some(48))
A50 == Raw(Some("249"), Some("webm"), Some("none"), Some("opus"),
           None, None, None, Some(50))
\* A storyboard: both codecs are the sentinel.
Storyboard == Raw(Some("sb0"), Some("mhtml"), Some("none"), Some("none"),
                  Some(90), None, None, None)
\* Both codec keys are missing from the dict.
NoCodecKeys == [format_id |-> Some("x1"), ext |-> Some("mp4"), height |-> Some(360)]
\* A video-only stream whose height the extractor does not know.
VNoHeight == [format_id |-> Some("hls"), vcodec |-> Some("vp9"), acodec |-> Some("none")]
\* The vcodec key is present and holds None; the stream carries audio.
VNoneA == Raw(Some("233"), Some("mp4"), None, Some("mp4a"), None, None, None, Some(64))
\* The vcodec key is present and holds None; acodec is the sentinel.
VNone480 == Raw(Some("96"), Some("mp4"), None, Some("none"), Some(480), None, None, None)

Descriptors ==
    {V2160, VA1080, V1080, VA720, VA720w, A128, A128drc, A160, A48, A50,
     Storyboard, NoCodecKeys, VNoHeight, VNoneA, VNone480}

RECURSIVE SeqsUpTo(_, _)
SeqsUpTo(S, n) ==
    IF n = 0 THEN {<<>>}
    ELSE LET shorter == SeqsUpTo(S, n - 1)
         IN shorter \cup {Append(s, x) : s \in shorter, x \in S}

\* Longer catalogs that exercise cases the exhaustive ones are too short for.
ScenarioCatalogs ==
    { <<V2160, VA1080, V1080, VA720, A128, A128drc>>,
      <<A128, A160, A48, A50>>,
      <<A128, A128drc, A160, A48>>,
      <<A48, V1080, A128, VA720w, A160, VA720, A50>> }

Catalogs == SeqsUpTo(Descriptors, MaxCatalog) \cup ScenarioCatalogs

-----------------------------------------------------------------------------
(* The extractor: what extract_info answers when it is invoked *)

InfoFull(c) == [title |-> "Title", uploader |-> "Uploader", duration |-> 125, formats |-> c]
\* An info dict without title, uploader, duration or formats.
InfoBare == [id |-> "abc"]

ExtractReplies ==
    {[ok |-> TRUE, info |-> InfoFull(c)] : c \in Catalogs}
        \cup {[ok |-> TRUE, info |-> InfoBare],
              [ok |-> FALSE, type |-> "DownloadError", msg |-> "ERROR: Video unavailable"]}

-----------------------------------------------------------------------------
(* Results of an operation: a return or a raise, with the external calls made *)

Return(v, nExtract, nDownload) ==
    [ok |-> TRUE, value |-> v, extracts |-> nExtract, downloads |-> nDownload]
Raise(type, msg, nExtract, nDownload) ==
    [ok |-> FALSE, value |-> [type |-> type, msg |-> msg],
     extracts |-> nExtract, downloads |-> nDownload]

\* A faulty variant: the extractor is asked before the URL is validated.
get_video_info_unvalidated(u, reply) ==
    IF reply.ok
    THEN IF validate_url(u)
         THEN Return([title |-> Get(reply.info, "title", "N/A"),
                      uploader |-> Get(reply.info, "uploader", "N/A"),
                      duration |-> Get(reply.info, "duration", 0),
                      formats |-> Get(reply.info, "formats", <<>>)], 1, 0)
         ELSE Raise("ValueError", <<"Invalid YouTube URL">>, 1, 0)
    ELSE Raise("Exception", <<"Error getting video info: ", reply.msg>>, 1, 0)

get_video_info(u, reply) ==
    IF ~validate_url(u)
    THEN Raise("ValueError", <<"Invalid YouTube URL">>, 0, 0)
    ELSE IF reply.ok
         THEN Return([title |-> Get(reply.info, "title", "N/A"),
                      uploader |-> Get(reply.info, "uploader", "N/A"),
                      duration |-> Get(reply.info, "duration", 0),
                      formats |-> Get(reply.info, "formats", <<>>)], 1, 0)
         ELSE Raise("Exception", <<"Error getting video info: ", reply.msg>>, 1, 0)

-----------------------------------------------------------------------------
(* get_available_formats: classification, derived fields, ordering *)

\* The type given to a format from its two codec fields; "drop" is `continue`.
format_type(vcodec, acodec) ==
    IF vcodec # Some("none") /\ acodec # Some("none") THEN "Video+Audio"
    ELSE IF vcodec # Some("none") THEN "Video Only"
    ELSE IF acodec # Some("none") THEN "Audio Only"
    ELSE "drop"

raw_type(f) == format_type(Get(f, "vcodec", Some("none")), Get(f, "acodec", Some("none")))

\* The quality description, as the parts the f-strings join.
quality_label(height, fps, abr) ==
    IF Truthy(height)
    THEN <<StrNum(height), "p">> \o (IF Truthy(fps) THEN <<" ", StrNum(fps), "fps">> ELSE <<>>)
    ELSE IF Truthy(abr) THEN <<StrNum(abr), "kbps">>
    ELSE <<"Unknown">>

size_mb(filesize) == IF Truthy(filesize) THEN (filesize[1] \div 1024) \div 1024 ELSE 0

\* The format_info dict of a kept descriptor (width, format_note and url are
\* copied through and never read, and are left out).
format_info(f) ==
    LET vcodec == Get(f, "vcodec", Some("none"))
        acodec == Get(f, "acodec", Some("none"))
        type == format_type(vcodec, acodec)
    IN [id |-> Get(f, "format_id", None),
        ext |-> Get(f, "ext", Some("unknown")),
        vcodec |-> vcodec,
        acodec |-> acodec,
        height |-> Get(f, "height", None),
        fps |-> Get(f, "fps", None),
        filesize |-> Get(f, "filesize", None),
        abr |-> Get(f, "abr", None),
        raw_format |-> f,
        type |-> type,
        quality |-> quality_label(Get(f, "height", None), Get(f, "fps", None),
                                  Get(f, "abr", None)),
        codec |-> IF type = "Audio Only" THEN acodec ELSE vcodec,
        size_mb |-> size_mb(Get(f, "filesize", None))]

process_formats(formats) ==
    LET kept == SelectSeq(formats, LAMBDA f : raw_type(f) # "drop")
    IN [i \in 1..Len(kept) |-> format_info(kept[i])]

type_priority(type) ==
    CASE type = "Video+Audio" -> 0
      [] type = "Video Only" -> 1
      [] type = "Audio Only" -> 2
      [] OTHER -> 3

\* A faulty variant: heights ascending.
sort_key_ascending(fmt) ==
    <<type_priority(fmt.type), IF Truthy(fmt.height) THEN fmt.height[1] ELSE 0>>

sort_key(fmt) ==
    <<type_priority(fmt.type), -(IF Truthy(fmt.height) THEN fmt.height[1] ELSE 0)>>

\* Python's ordering of two key tuples.
KeyLess(a, b) == a[1] < b[1] \/ (a[1] = b[1] /\ a[2] < b[2])

\* A faulty variant: an element is placed before the elements whose key equals its own.
RECURSIVE insert_before_equal(_, _)
insert_before_equal(sorted, x) ==
    IF sorted = <<>> THEN <<x>>
    ELSE IF KeyLess(sort_key(Head(sorted)), sort_key(x))
         THEN <<Head(sorted)>> \o insert_before_equal(Tail(sorted), x)
         ELSE <<x>> \o sorted

\* list.sort is stable: an element goes after the elements whose key is not
\* greater than its own.
RECURSIVE insert_sorted(_, _)
insert_sorted(sorted, x) ==
    IF sorted = <<>> THEN <<x>>
    ELSE IF KeyLess(sort_key(x), sort_key(Head(sorted)))
         THEN <<x>> \o sorted
         ELSE <<Head(sorted)>> \o insert_sorted(Tail(sorted), x)

RECURSIVE sort_formats(_)
sort_formats(fs) ==
    IF fs = <<>> THEN <<>>
    ELSE insert_sorted(sort_formats(SubSeq(fs, 1, Len(fs) - 1)), fs[Len(fs)])

get_available_formats(u, reply) ==
    LET info == get_video_info(u, reply)
    IN IF ~info.ok
       THEN Raise("Exception",
                  <<"Error getting available formats: ">> \o info.value.msg,
                  info.extracts, info.downloads)
       ELSE Return(sort_formats(process_formats(info.value.formats)),
                   info.extracts, info.downloads)

-----------------------------------------------------------------------------
(* get_format_selection_options: the menu of selectable formats *)

video_option(fmt, num) ==
    [num |-> num,
     type |-> "video",
     quality |-> StrNum(fmt.height),
     audio_only |-> FALSE,
     \* f"{height}p {ext} {codec[:10]}"; the slice is kept symbolic
     description |-> <<StrNum(fmt.height), "p ", StrText(fmt.ext), " ", "[:10]", fmt.codec>>,
     format_info |-> fmt]

\* A faulty variant: every video format with a height gets an option.
RECURSIVE video_options_all(_, _, _)
video_options_all(fmts, resolutions_shown, option_num) ==
    IF fmts = <<>> THEN <<>>
    ELSE IF Truthy(Head(fmts).height)
         THEN <<video_option(Head(fmts), option_num)>>
                  \o video_options_all(Tail(fmts), resolutions_shown, option_num + 1)
         ELSE video_options_all(Tail(fmts), resolutions_shown, option_num)

\* A faulty variant: a height that was already shown replaces the option shown for it.
RECURSIVE video_options_last(_, _, _)
video_options_last(fmts, resolutions_shown, option_num) ==
    IF fmts = <<>> THEN <<>>
    ELSE LET fmt == Head(fmts)
             later == \E i \in 2..Len(fmts) : fmts[i].height = fmt.height
         IN IF Truthy(fmt.height) /\ ~later
            THEN <<video_option(fmt, option_num)>>
                     \o video_options_last(Tail(fmts), resolutions_shown, option_num + 1)
            ELSE video_options_last(Tail(fmts), resolutions_shown, option_num)

\* The loop over video_formats: one option per height not yet shown.
RECURSIVE video_options(_, _, _)
video_options(fmts, resolutions_shown, option_num) ==
    IF fmts = <<>> THEN <<>>
    ELSE LET fmt == Head(fmts)
         IN IF Truthy(fmt.height) /\ fmt.height[1] \notin resolutions_shown
            THEN <<video_option(fmt, option_num)>>
                     \o video_options(Tail(fmts), resolutions_shown \cup {fmt.height[1]},
                                      option_num + 1)
            ELSE video_options(Tail(fmts), resolutions_shown, option_num)

\* A faulty variant: the bitrate is left out of the key.
format_key_no_abr(fmt) == <<StrText(fmt.acodec), "_", StrText(fmt.ext)>>

\* f"{acodec}_{ext}_{abr}", as the parts the f-string joins.
format_key(fmt) == <<StrText(fmt.acodec), "_", StrText(fmt.ext), "_", StrNum(fmt.abr)>>

audio_option(fmt, num) ==
    [num |-> num,
     type |-> "audio",
     quality |-> "best",
     audio_only |-> TRUE,
     output_format |-> fmt.ext,
     \* f"Audio {ext} {acodec} {abr}kbps"
     description |-> <<"Audio ", StrText(fmt.ext), " ", StrText(fmt.acodec), " ",
                       StrNum(fmt.abr), "kbps">>,
     format_info |-> fmt]

\* The loop over the audio formats: one option per key not yet shown.
RECURSIVE audio_options(_, _, _)
audio_options(fmts, audio_shown, option_num) ==
    IF fmts = <<>> THEN <<>>
    ELSE LET fmt == Head(fmts)
         IN IF format_key(fmt) \notin audio_shown
            THEN <<audio_option(fmt, option_num)>>
                     \o audio_options(Tail(fmts), audio_shown \cup {format_key(fmt)},
                                      option_num + 1)
            ELSE audio_options(Tail(fmts), audio_shown, option_num)

\* audio_formats[:3]
top_audio(audio_formats) ==
    SubSeq(audio_formats, 1, IF Len(audio_formats) < 3 THEN Len(audio_formats) ELSE 3)

\* A faulty variant: the audio options are numbered from 1 again.
build_options_renumbered(formats) ==
    LET video_formats == SelectSeq(formats, LAMBDA f : f.type \in {"Video+Audio", "Video Only"})
        audio_formats == SelectSeq(formats, LAMBDA f : f.type = "Audio Only")
    IN video_options(video_formats, {}, 1) \o audio_options(top_audio(audio_formats), {}, 1)

\* The body of get_format_selection_options after the catalog is fetched.
build_options(formats) ==
    LET video_formats == SelectSeq(formats, LAMBDA f : f.type \in {"Video+Audio", "Video Only"})
        audio_formats == SelectSeq(formats, LAMBDA f : f.type = "Audio Only")
        video == video_options(video_formats, {}, 1)
    IN video \o audio_options(top_audio(audio_formats), {}, Len(video) + 1)

\* fmt['codec'][:10] raises TypeError when the codec is None.
slice_fails(options) ==
    \E i \in 1..Len(options) : options[i].type = "video" /\ options[i].format_info.codec = None

get_format_selection_options(u, reply) ==
    LET formats == get_available_formats(u, reply)
    IN IF ~formats.ok
       THEN Raise("Exception",
                  <<"Error getting format selection options: ">> \o formats.value.msg,
                  formats.extracts, formats.downloads)
       ELSE IF slice_fails(build_options(formats.value))
            THEN Raise("Exception",
                       <<"Error getting format selection options: ",
                         "'NoneType' object is not subscriptable">>,
                       formats.extracts, formats.downloads)
            ELSE Return(build_options(formats.value), formats.extracts, formats.downloads)

-----------------------------------------------------------------------------
(* get_download_options: the format-selection expression and post-processing *)

\* Truthiness of an optional string: None and "" are falsy.
TruthyText(x) == x # None /\ x[1] # ""

\* A faulty variant: the streams must have exactly the requested height.
capped_format_exact(n) ==
    <<"bestvideo", "[", "height", "=", n, "]", "+", "bestaudio", "/",
      "best", "[", "height", "=", n, "]", "/",
      "best", "[", "height", "=", n, "]">>

\* "bestvideo[height<=n]+bestaudio/best[height<=n]/best[height<=n]"
capped_format(n) ==
    <<"bestvideo", "[", "height", "<=", n, "]", "+", "bestaudio", "/",
      "best", "[", "height", "<=", n, "]", "/",
      "best", "[", "height", "<=", n, "]">>

\* A faulty variant: the combined stream is tried before the merged pair, and the
\* unconstrained pair is missing.
best_format_combined_first ==
    <<"best", "[", "height", "<=", "2160", "]", "/",
      "bestvideo", "[", "height", "<=", "2160", "]", "+",
      "bestaudio", "[", "height", "<=", "2160", "]", "/",
      "best">>

\* A faulty variant: no alternative is capped.
best_format_uncapped == <<"bestvideo", "+", "bestaudio", "/", "best">>

\* "bestvideo[height<=2160]+bestaudio/best[height<=2160]/bestvideo+bestaudio/best"
best_format ==
    <<"bestvideo", "[", "height", "<=", "2160", "]", "+", "bestaudio", "/",
      "best", "[", "height", "<=", "2160", "]", "/",
      "bestvideo", "+", "bestaudio", "/",
      "best">>

video_format(quality) ==
    CASE quality = "best" -> best_format
      [] quality = "worst" -> <<"worst">>
      [] quality = "4k" \/ quality = "2160" -> capped_format("2160")
      [] quality = "1440" -> capped_format("1440")
      [] quality = "1080" -> capped_format("1080")
      [] quality = "720" -> capped_format("720")
      [] quality = "480" -> capped_format("480")
      [] quality = "360" -> capped_format("360")
      [] OTHER -> capped_format(quality)

\* A faulty variant: the template is always under the default directory.
outtmpl_default(dir) == <<"downloads", "%(title)s.%(ext)s">>

\* str(self.output_dir / "%(title)s.%(ext)s")
outtmpl(dir) == Append(dir, "%(title)s.%(ext)s")

\* A faulty variant: the codec is taken from the request even when it names none.
audio_postprocessors_no_default(output_format) ==
    <<[key |-> "FFmpegExtractAudio",
       preferredcodec |-> StrText(output_format),
       preferredquality |-> "192"]>>

\* The post-processing of an audio-only request.
audio_postprocessors(output_format) ==
    <<[key |-> "FFmpegExtractAudio",
       preferredcodec |-> IF TruthyText(output_format) THEN output_format[1] ELSE "mp3",
       preferredquality |-> "192"]>>

\* A faulty variant: a conversion is requested whether or not a format is given.
video_postprocessors_unconditional(output_format) ==
    <<[key |-> "FFmpegVideoConvertor", preferedformat |-> StrText(output_format)]>>

\* The post-processing of a video request; <<>> when the key is not set.
video_postprocessors(output_format) ==
    IF TruthyText(output_format)
    THEN <<[key |-> "FFmpegVideoConvertor", preferedformat |-> output_format[1]]>>
    ELSE <<>>

get_download_options(dir, quality, audio_only, output_format) ==
    LET base == [outtmpl |-> outtmpl(dir), noplaylist |-> TRUE, merge_output_format |-> "mp4"]
    IN IF audio_only
       THEN [outtmpl |-> base.outtmpl, noplaylist |-> base.noplaylist,
             merge_output_format |-> base.merge_output_format,
             format |-> <<"bestaudio", "/", "best">>,
             postprocessors |-> audio_postprocessors(output_format)]
       ELSE IF video_postprocessors(output_format) # <<>>
            THEN [outtmpl |-> base.outtmpl, noplaylist |-> base.noplaylist,
                  merge_output_format |-> base.merge_output_format,
                  format |-> video_format(quality),
                  postprocessors |-> video_postprocessors(output_format)]
            ELSE [outtmpl |-> base.outtmpl, noplaylist |-> base.noplaylist,
                  merge_output_format |-> base.merge_output_format,
                  format |-> video_format(quality)]

-----------------------------------------------------------------------------
(* app.py: the options of the standalone downloader *)

\* A faulty variant: only the merged pair is asked for.
app_capped_format_pair_only(n) ==
    <<"bestvideo", "[", "height", "<=", n, "]", "+", "bestaudio">>

\* "bestvideo[height<=n]+bestaudio/best[height<=n]"
app_capped_format(n) ==
    <<"bestvideo", "[", "height", "<=", n, "]", "+", "bestaudio", "/",
      "best", "[", "height", "<=", n, "]">>

\* "bestvideo[height<=2160]+bestaudio/best[height<=2160]/bestvideo+bestaudio/best"
app_best_format ==
    <<"bestvideo", "[", "height", "<=", "2160", "]", "+", "bestaudio", "/",
      "best", "[", "height", "<=", "2160", "]", "/",
      "bestvideo", "+", "bestaudio", "/",
      "best">>

app_video_format(quality) ==
    CASE quality = "best" -> app_best_format
      [] quality = "worst" -> <<"worst">>
      [] quality = "4k" \/ quality = "2160" -> app_capped_format("2160")
      [] quality = "1440" -> app_capped_format("1440")
      [] quality = "1080" -> app_capped_format("1080")
      [] quality = "720" -> app_capped_format("720")
      [] quality = "480" -> app_capped_format("480")
      [] quality = "360" -> app_capped_format("360")
      [] OTHER -> app_capped_format(quality)

\* ydl_opts as YouTubeDownloader.download_video builds it.
app_download_options(dir, quality, audio_only, output_format) ==
    LET base == [outtmpl |-> Append(dir, "%(title)s.%(ext)s"), noplaylist |-> TRUE,
                 merge_output_format |-> "mp4"]
    IN IF audio_only
       THEN [outtmpl |-> base.outtmpl, noplaylist |-> base.noplaylist,
             merge_output_format |-> base.merge_output_format,
             format |-> <<"bestaudio", "/", "best">>,
             postprocessors |->
                 <<[key |-> "FFmpegExtractAudio",
                    preferredcodec |-> IF TruthyText(output_format)
                                       THEN output_format[1] ELSE "mp3",
                    preferredquality |-> "192"]>>]
       ELSE IF TruthyText(output_format)
            THEN [outtmpl |-> base.outtmpl, noplaylist |-> base.noplaylist,
                  merge_output_format |-> base.merge_output_format,
                  format |-> app_video_format(quality),
                  postprocessors |->
                      <<[key |-> "FFmpegVideoConvertor",
                         preferedformat |-> output_format[1]]>>]
            ELSE [outtmpl |-> base.outtmpl, noplaylist |-> base.noplaylist,
                  merge_output_format |-> base.merge_output_format,
                  format |-> app_video_format(quality)]

-----------------------------------------------------------------------------
(* Reading a format-selection expression the way the downloader does *)

\* The pieces of a token sequence between occurrences of a separator.
RECURSIVE Split(_, _)
Split(tokens, sep) ==
    IF \A i \in 1..Len(tokens) : tokens[i] # sep
    THEN <<tokens>>
    ELSE LET k == CHOOSE i \in 1..Len(tokens) :
                      tokens[i] = sep /\ \A j \in 1..(i - 1) : tokens[j] # sep
         IN <<SubSeq(tokens, 1, k - 1)>> \o Split(SubSeq(tokens, k + 1, Len(tokens)), sep)

\* The alternatives of an expression, in order of preference ("/").
Alternatives(expr) == Split(expr, "/")

\* The streams an alternative merges ("+").
Streams(alt) == Split(alt, "+")

\* The stream selector's name and its filter (<<>> when it has none).
Selector(stream) == stream[1]
Filter(stream) == IF Len(stream) > 1 THEN SubSeq(stream, 3, Len(stream) - 1) ELSE <<>>

-----------------------------------------------------------------------------
(* download_video and preview_download *)

\* The extractor's answers to callers that read only title, uploader, duration.
InfoReplies ==
    {[ok |-> TRUE, info |-> InfoFull(<<VA720, A128>>)],
     [ok |-> TRUE, info |-> InfoBare],
     [ok |-> FALSE, type |-> "DownloadError", msg |-> "ERROR: Video unavailable"],
     [ok |-> FALSE, type |-> "URLError", msg |-> "Name or service not known"]}

\* What ydl.download does when it is invoked.
DownloadReplies ==
    {[ok |-> TRUE],
     [ok |-> FALSE, type |-> "DownloadError", msg |-> "ERROR: unable to download"],
     [ok |-> FALSE, type |-> "OSError", msg |-> "No space left on device"]}

Qualities == {"best", "worst", "4k", "2160", "1440", "1080", "720", "480", "360",
              "240", "0", "-5", "hd"}
OutputFormats == {None, Some(""), Some("mp3"), Some("mkv")}
ProgressCallbacks == {None, Some("progress_hook")}

\* The options download_video hands to the downloader.
download_opts(dir, quality, audio_only, output_format, progress_callback) ==
    LET opts == get_download_options(dir, quality, audio_only, output_format)
    IN IF progress_callback # None
       THEN [k \in DOMAIN opts \cup {"progress_hooks"} |->
                IF k = "progress_hooks" THEN <<progress_callback[1]>> ELSE opts[k]]
       ELSE opts

\* The working directory of the process.
Cwd == <<"/", "home", "user">>

\* A faulty variant: the path is left as it was given.
absolute_as_given(path) == path

\* Path.absolute(): a relative path is put under the working directory.
absolute(path) == IF path # <<>> /\ path[1] = "/" THEN path ELSE Cwd \o path

\* A faulty variant: the download is started although the extraction failed,
\* and the extractor's message is dropped.
download_video_despite_extraction(dir, u, quality, audio_only, output_format, reply, dl) ==
    IF ~validate_url(u)
    THEN Raise("ValueError", <<"Invalid YouTube URL">>, 0, 0)
    ELSE LET info == get_video_info(u, reply)
         IN IF ~info.ok
            THEN Raise("Exception", <<"Unexpected Error: ", "download failed">>,
                       info.extracts, 1)
            ELSE IF dl.ok
                 THEN Return([success |-> TRUE,
                              title |-> info.value.title,
                              uploader |-> info.value.uploader,
                              duration |-> info.value.duration,
                              output_dir |-> absolute(dir),
                              quality |-> quality,
                              audio_only |-> audio_only,
                              message |-> "Download completed successfully!"],
                             info.extracts, 1)
                 ELSE IF dl.type = "DownloadError"
                      THEN Raise("Exception", <<"Download Error: ", dl.msg>>, info.extracts, 1)
                      ELSE Raise("Exception", <<"Unexpected Error: ", dl.msg>>,
                                 info.extracts, 1)

\* A faulty variant: a failed download is attempted a second time.
download_video_retry(dir, u, quality, audio_only, output_format, reply, dl) ==
    IF ~validate_url(u)
    THEN Raise("ValueError", <<"Invalid YouTube URL">>, 0, 0)
    ELSE LET info == get_video_info(u, reply)
         IN IF ~info.ok
            THEN Raise("Exception", <<"Unexpected Error: ">> \o info.value.msg,
                       info.extracts, 0)
            ELSE IF dl.ok
                 THEN Return([success |-> TRUE,
                              title |-> info.value.title,
                              uploader |-> info.value.uploader,
                              duration |-> info.value.duration,
                              output_dir |-> absolute(dir),
                              quality |-> quality,
                              audio_only |-> audio_only,
                              message |-> "Download completed successfully!"],
                             info.extracts, 1)
                 ELSE IF dl.type = "DownloadError"
                      THEN Raise("Exception", <<"Download Error: ", dl.msg>>, info.extracts, 2)
                      ELSE Raise("Exception", <<"Unexpected Error: ", dl.msg>>,
                                 info.extracts, 2)

download_video(dir, u, quality, audio_only, output_format, reply, dl) ==
    IF ~validate_url(u)
    THEN Raise("ValueError", <<"Invalid YouTube URL">>, 0, 0)
    ELSE LET info == get_video_info(u, reply)
         IN IF ~info.ok
            THEN Raise("Exception", <<"Unexpected Error: ">> \o info.value.msg,
                       info.extracts, 0)
            ELSE IF dl.ok
                 THEN Return([success |-> TRUE,
                              title |-> info.value.title,
                              uploader |-> info.value.uploader,
                              duration |-> info.value.duration,
                              output_dir |-> absolute(dir),
                              quality |-> quality,
                              audio_only |-> audio_only,
                              message |-> "Download completed successfully!"],
                             info.extracts, 1)
                 ELSE IF dl.type = "DownloadError"
                      THEN Raise("Exception", <<"Download Error: ", dl.msg>>, info.extracts, 1)
                      ELSE Raise("Exception", <<"Unexpected Error: ", dl.msg>>,
                                 info.extracts, 1)

preview_download(dir, u, quality, audio_only, reply) ==
    LET info == get_video_info(u, reply)
    IN IF ~info.ok
       THEN Raise("Exception", <<"Error previewing download: ">> \o info.value.msg,
                  info.extracts, 0)
       ELSE Return([title |-> info.value.title,
                    uploader |-> info.value.uploader,
                    duration |-> info.value.duration,
                    output_dir |-> absolute(dir),
                    quality_setting |-> quality,
                    audio_only |-> audio_only,
                    format_string |->
                        Get(get_download_options(dir, quality, audio_only, None),
                            "format", <<"default">>),
                    estimated_filename |->
                        <<info.value.title, ".", IF audio_only THEN "mp3" ELSE "mp4">>],
                   info.extracts, 0)

-----------------------------------------------------------------------------
(* The CLI's interactive menu *)

\* cancel_num = len(options) + 1
cancel_num(options) == Len(options) + 1

\* What the user types: a number, something that is no number, Ctrl-C,
\* or the end of the input stream.
MenuInputs == {[kind |-> "int", n |-> n] : n \in -1..9}
                  \cup {[kind |-> "text"], [kind |-> "interrupt"], [kind |-> "eof"]}

\* Nothing typed yet.
NoInput == [kind |-> "none"]

MenuOff == [pc |-> "off", options |-> <<>>, cancel_num |-> 0, input |-> NoInput]

\* The option a valid choice selects: next(opt for opt in options if opt["num"] == n).
selected_option(options, n) ==
    LET hits == {i \in 1..Len(options) : options[i].num = n}
    IN IF hits = {}
       THEN None
       ELSE Some(options[CHOOSE i \in hits : \A j \in hits : i <= j])

\* A faulty variant: a number outside the menu ends the selection.
menu_step_invalid_cancels(options, cancel, input) ==
    IF input.kind \in {"interrupt", "eof"}
    THEN [pc |-> "cancelled", ret |-> None]
    ELSE IF input.kind = "text"
         THEN [pc |-> "prompt", ret |-> None]
         ELSE IF input.n = cancel
              THEN [pc |-> "cancelled", ret |-> None]
              ELSE IF 1 <= input.n /\ input.n <= Len(options)
                   THEN IF selected_option(options, input.n) # None
                        THEN [pc |-> "selected", ret |-> selected_option(options, input.n)]
                        ELSE [pc |-> "prompt", ret |-> None]
                   ELSE [pc |-> "cancelled", ret |-> None]

\* One pass of the prompt loop: where the loop stands afterwards and what
\* interactive_format_selection returns if it has ended.
menu_step(options, cancel, input) ==
    IF input.kind = "interrupt"
    THEN \* except KeyboardInterrupt: return None
         [pc |-> "cancelled", ret |-> None]
    ELSE IF input.kind = "eof"
         THEN \* EOFError reaches the outer except Exception: return None
              [pc |-> "cancelled", ret |-> None]
         ELSE IF input.kind = "text"
              THEN \* ValueError: "Please enter a valid number."
                   [pc |-> "prompt", ret |-> None]
              ELSE IF input.n = cancel
                   THEN [pc |-> "cancelled", ret |-> None]
                   ELSE IF 1 <= input.n /\ input.n <= Len(options)
                        THEN IF selected_option(options, input.n) # None
                             THEN [pc |-> "selected",
                                   ret |-> selected_option(options, input.n)]
                             ELSE [pc |-> "prompt", ret |-> None]
                        ELSE \* "Invalid option."
                             [pc |-> "prompt", ret |-> None]

\* interactive_format_selection up to its first prompt: the video's info is
\* fetched and printed, the options are fetched and listed.
menu_open(u, first, second) ==
    LET info == get_video_info(u, first)
        options == get_format_selection_options(u, second)
    IN IF ~info.ok
       THEN \* "Error during format selection", return None
            [replies |-> <<first>>, result |-> Return(None, info.extracts, 0),
             menu |-> MenuOff]
       ELSE IF ~options.ok
            THEN [replies |-> <<first, second>>,
                  result |-> Return(None, info.extracts + options.extracts, 0),
                  menu |-> MenuOff]
            ELSE [replies |-> <<first, second>>,
                  result |-> Return(None, info.extracts + options.extracts, 0),
                  menu |-> [pc |-> "prompt", options |-> options.value,
                            cancel_num |-> cancel_num(options.value),
                            input |-> NoInput]]

-----------------------------------------------------------------------------
(* The output directory on the file system *)

\* Path.parent of an absolute path.
parent(path) == IF Len(path) <= 1 THEN path ELSE SubSeq(path, 1, Len(path) - 1)

\* The directories that exist before any service is constructed.
BaseFs == {<<"/">>, <<"/", "home">>, <<"/", "home", "user">>}

\* What else may exist: the parent of the absolute output directory, or not.
FileSystems == {BaseFs, BaseFs \cup {<<"/", "srv">>}}

\* The directories a service is constructed with: the default, relative to the
\* working directory, and an absolute one.
OutputDirs == {<<"downloads">>, <<"/", "srv", "media">>}

\* The directories a service is given after its construction; the last one is
\* two levels below the working directory.
DirArgs == OutputDirs \cup {<<"out", "videos">>}

\* Path.mkdir(exist_ok=True): an existing directory is left alone, a missing
\* one is created under an existing parent, and a missing parent is
\* FileNotFoundError.
mkdir(files, path) ==
    IF absolute(path) \in files
    THEN [ok |-> TRUE, disk |-> files]
    ELSE IF parent(absolute(path)) \in files
         THEN [ok |-> TRUE, disk |-> files \cup {absolute(path)}]
         ELSE [ok |-> FALSE, disk |-> files]

\* self.output_dir = Path(output_dir), then mkdir: the directory is assigned
\* whether or not it can be created.
set_output_directory(files, dir) ==
    [ok |-> mkdir(files, dir).ok, output_dir |-> dir, disk |-> mkdir(files, dir).disk]

-----------------------------------------------------------------------------
(* launcher.py *)

\* The option strings the launcher's parser takes for --gui and for --cli;
\* "--gu" and "--cl" are abbreviations argparse accepts.
GuiFlags == {"--gui", "-g", "--gu"}
CliFlags == {"--cli", "-c", "--cl"}

\* The words of the command lines tried.
LauncherWords == {"--gui", "-g", "--cli", "-c", "--cl", "-i", "-q", "URL"}
CommandLines == SeqsUpTo(LauncherWords, MaxArgs)

\* parser.parse_known_args(): the two flags, and the words left over.
RECURSIVE parse_known_args(_)
parse_known_args(argv) ==
    IF argv = <<>>
    THEN [gui |-> FALSE, cli |-> FALSE, unknown |-> <<>>]
    ELSE LET rest == parse_known_args(Tail(argv))
         IN IF Head(argv) \in GuiFlags
            THEN [rest EXCEPT !.gui = TRUE]
            ELSE IF Head(argv) \in CliFlags
                 THEN [rest EXCEPT !.cli = TRUE]
                 ELSE [rest EXCEPT !.unknown = <<Head(argv)>> \o @]

\* A faulty variant: --cli wins when both flags are given.
launcher_main_cli_wins(argv) ==
    LET args == parse_known_args(argv)
    IN IF ~args.cli
       THEN [interface |-> "gui", argv |-> <<>>]
       ELSE [interface |-> "cli", argv |-> <<"cli.py">> \o args.unknown]

\* main(): which interface is launched, and the sys.argv the CLI is given.
launcher_main(argv) ==
    LET args == parse_known_args(argv)
    IN IF args.gui \/ ~args.cli
       THEN [interface |-> "gui", argv |-> <<>>]
       ELSE [interface |-> "cli", argv |-> <<"cli.py">> \o args.unknown]

-----------------------------------------------------------------------------
(* The GUI: widgets and handlers of the interface thread *)

\* What is typed into the URL field, and the output directories chosen.
GuiUrls == {UrlWatch}
GuiDirs == {Cwd \o <<"downloads">>, <<"/", "srv", "media">>}

\* What the extractor answers to the GUI's threads.
GuiReplies ==
    {[ok |-> TRUE, info |-> InfoFull(<<VA720, A128>>)],
     [ok |-> FALSE, type |-> "DownloadError", msg |-> "ERROR: Video unavailable"]}

\* What ydl.download does for the GUI's threads.
GuiDownloadReplies ==
    {[ok |-> TRUE],
     [ok |-> FALSE, type |-> "DownloadError", msg |-> "ERROR: unable to download"]}

\* The GUI after __init__ and setup_ui: the download and refresh buttons are
\* disabled, nothing is selected, no thread runs.
GuiStart ==
    [url |-> <<>>,
     out |-> Cwd \o <<"downloads">>,
     selected_format |-> None,
     formats_data |-> <<>>,
     get_info_btn |-> "normal",
     load_formats_btn |-> "normal",
     refresh_btn |-> "disabled",
     download_btn |-> "disabled",
     workers |-> <<>>,
     posted |-> <<>>]

\* The callbacks a thread posts before it ends: a fetch posts its result and
\* the callback of its `finally`, a download posts one.
RECURSIVE Pending(_)
Pending(workers) ==
    IF workers = <<>> THEN 0
    ELSE (IF Head(workers).kind = "download" THEN 1 ELSE 2) + Pending(Tail(workers))

\* A thread that posts `callbacks` callbacks can be started: the bounds leave
\* room for it and for what it posts.
Room(g, callbacks) ==
    /\ Len(g.workers) < MaxWorkers
    /\ Len(g.posted) + Pending(g.workers) + callbacks <= MaxPosted

\* threading.Thread(target=..., daemon=True).start()
Thread(kind, u, dir, pc) ==
    [kind |-> kind, pc |-> pc, url |-> u, dir |-> dir, pressed |-> None,
     quality |-> "", audio_only |-> FALSE, output_format |-> None]

\* get_video_info of the GUI: the checks, then the thread.
gui_get_video_info(g) ==
    IF g.url = <<>> \/ ~(Contains(g.url, YoutubeCom) \/ Contains(g.url, YoutuBe))
    THEN g
    ELSE [g EXCEPT !.get_info_btn = "disabled",
                   !.workers = Append(@, Thread("info", g.url, <<>>, "fetch"))]

load_formats(g) ==
    IF g.url = <<>>
    THEN g
    ELSE [g EXCEPT !.load_formats_btn = "disabled",
                   !.workers = Append(@, Thread("formats", g.url, <<>>, "fetch"))]

\* on_format_select with row `index` of the list selected.
on_format_select(g, index) ==
    [g EXCEPT !.selected_format = Some(g.formats_data[index]),
              !.download_btn = "normal"]

on_mode_change(g) ==
    [g EXCEPT !.selected_format = None, !.download_btn = "disabled"]

\* start_download: the checks, the button disabled, the thread started with
\* the URL and the directory read now.
start_download(g) ==
    IF g.selected_format = None \/ g.url = <<>> \/ g.out = <<>>
    THEN g
    ELSE [g EXCEPT !.download_btn = "disabled",
                   !.workers =
                       Append(@, [Thread("download", g.url, g.out, "set_dir")
                                     EXCEPT !.pressed = g.selected_format])]

\* A callback posted with root.after(0, ...), run by the interface thread.
\* The handlers of an exception read the name `e` of an except clause that
\* has ended by then or not: `stale` is the run in which it has, and
\* the callback raises NameError instead of calling the handler.
run_callback(g, callback, stale) ==
    CASE callback.fn = "display_video_info" ->
             [g EXCEPT !.load_formats_btn = "normal", !.refresh_btn = "normal"]
      [] callback.fn = "enable_get_info" -> [g EXCEPT !.get_info_btn = "normal"]
      [] callback.fn = "display_formats" -> [g EXCEPT !.formats_data = callback.formats]
      [] callback.fn = "finish_loading_formats" ->
             [g EXCEPT !.load_formats_btn = "normal"]
      [] callback.fn = "download_complete" -> [g EXCEPT !.download_btn = "normal"]
      [] callback.fn = "download_error" ->
             IF stale THEN g ELSE [g EXCEPT !.download_btn = "normal"]
      [] OTHER -> \* show_error: a message box
             g

\* The GUI's background threads.
\* fetch_info: the callbacks it posts, the one of `finally` last.
fetch_info(w, reply) ==
    LET info == get_video_info(w.url, reply)
    IN <<IF info.ok THEN [fn |-> "display_video_info"] ELSE [fn |-> "show_error"],
         [fn |-> "enable_get_info"]>>

\* fetch_formats of load_formats.
fetch_formats(w, reply) ==
    LET formats == get_available_formats(w.url, reply)
    IN <<IF formats.ok
         THEN [fn |-> "display_formats", formats |-> formats.value]
         ELSE [fn |-> "show_error"],
         [fn |-> "finish_loading_formats"]>>

\* One read of self.selected_format by the download thread, which reads the
\* attribute each time it needs a field: `selected` is its value at this
\* read. Subscripting None is TypeError.
download_read(w, selected) ==
    IF selected = None
    THEN [ok |-> FALSE, w |-> w]
    ELSE [ok |-> TRUE,
          w |-> CASE w.pc = "read_type" ->
                         IF selected[1].type = "Audio Only"
                         THEN [w EXCEPT !.pc = "read_ext", !.audio_only = TRUE,
                                        !.quality = "best"]
                         ELSE [w EXCEPT !.pc = "test_height", !.audio_only = FALSE]
                  [] w.pc = "read_ext" ->
                         [w EXCEPT !.pc = "call", !.output_format = selected[1].ext]
                  [] w.pc = "test_height" ->
                         IF Truthy(selected[1].height)
                         THEN [w EXCEPT !.pc = "read_height"]
                         ELSE [w EXCEPT !.pc = "call", !.quality = "best"]
                  [] OTHER -> \* read_height
                         [w EXCEPT !.pc = "call", !.quality = StrNum(selected[1].height)]]

\* The callback a download thread posts when it ends. With it goes what the
\* thread did: the format selected and the directory read when Download was
\* pressed, the request it made of the service and the directory the service
\* wrote to (if it got that far), and the exception it caught.
Ended(w, called, dir, error) ==
    [fn |-> IF error = "" THEN "download_complete" ELSE "download_error",
     pressed |-> w.pressed[1],
     dir |-> w.dir,
     request |-> IF called
                 THEN Some([quality |-> w.quality, audio_only |-> w.audio_only,
                            output_format |-> w.output_format])
                 ELSE None,
     used |-> IF called THEN Some(dir) ELSE None,
     error |-> error]

\* The thread at `i` ends, its callbacks are posted.
Leave(g, i, callbacks) ==
    [g EXCEPT !.workers = SubSeq(@, 1, i - 1) \o SubSeq(@, i + 1, Len(@)),
              !.posted = @ \o callbacks]

-----------------------------------------------------------------------------
(* The CLI: arguments, confirmation *)

\* choices=[...] of --quality
QualityChoices == {"best", "worst", "4k", "2160", "1440", "1080", "720", "480", "360"}

\* The command lines tried.
CliUrls == {UrlWatch, UrlVimeo}
CliQualities == {"best", "720", "240", "hd"}
CliFormats == {None, Some("mkv")}

\* What the extractor reports of the formats when the CLI's menu asks.
CliMenuReplies ==
    {[ok |-> TRUE, info |-> InfoFull(<<V1080, VA720, A128>>)],
     [ok |-> TRUE, info |-> InfoBare],
     [ok |-> FALSE, type |-> "DownloadError", msg |-> "ERROR: Video unavailable"]}

\* "youtube.com" in args.url or "youtu.be" in args.url
url_accepted(u) == Contains(u, YoutubeCom) \/ Contains(u, YoutuBe)

\* str.lower(), on the letters of the answers tried.
LowerChar(c) ==
    CASE c = "Y" -> "y"
      [] c = "E" -> "e"
      [] c = "S" -> "s"
      [] c = "N" -> "n"
      [] c = "O" -> "o"
      [] OTHER -> c
Lower(text) == [i \in 1..Len(text) |-> LowerChar(text[i])]

\* What is typed at "Do you want to proceed with the download? (y/n): ".
Answers ==
    {<<"y">>, <<"Y">>, <<"y", "e", "s">>, <<"Y", "E", "S">>, <<"Y", "e", "s">>,
     <<"n">>, <<"N", "o">>, <<>>, <<" ", "y">>, <<"y", "e", "a", "h">>}
ConfirmInputs ==
    {[kind |-> "text", text |-> t] : t \in Answers}
        \cup {[kind |-> "eof", text |-> <<>>], [kind |-> "interrupt", text |-> <<>>]}

\* A faulty variant: everything but a refusal counts as consent.
proceeds_unless_no(response) == Lower(response) \notin {<<"n">>, <<"n", "o">>}

\* not (response.lower() not in ["y", "yes"])
proceeds(response) == Lower(response) \in {<<"y">>, <<"y", "e", "s">>}

CliOff ==
    [pc |-> "off", url |-> <<>>, quality |-> "", audio_only |-> FALSE,
     output_format |-> None, answer |-> NoInput, invoked |-> FALSE, downloads |-> 0,
     status |-> "none", dir |-> <<>>,
     args |-> [quality |-> "", audio_only |-> FALSE, output_format |-> None],
     chosen |-> None]

\* A faulty variant: the command line's values are kept.
selection_args_from_command_line(args, option) == args

\* What the CLI's download_video takes from the option chosen in the menu.
selection_args(args, option) ==
    [quality |-> option.quality,
     audio_only |-> option.audio_only,
     output_format |-> Get(option, "output_format", None)]

-----------------------------------------------------------------------------
(* The state machine: one operation at a time, from the idle state *)

NoRequest == [quality |-> "", audio_only |-> FALSE, output_format |-> None]

\* Nothing has been called yet; no CLI run, no GUI.
Idle ==
    /\ op = "idle"
    /\ url = <<>>
    /\ request = NoRequest
    /\ reported = <<>>
    /\ outcome = "none"
    /\ ret = <<>>
    /\ extract_calls = 0
    /\ download_calls = 0
    /\ ydl_opts = None
    /\ menu = MenuOff
    /\ transfers = <<>>
    /\ cli = CliOff
    /\ gui = GuiStart

\* A service constructed where the parent of its directory exists.
Init ==
    /\ Idle
    /\ output_dir \in OutputDirs
    /\ disk = mkdir(BaseFs \cup {<<"/", "srv">>}, output_dir).disk

\* A service constructed, with success, on any of the file systems.
InitDir ==
    /\ Idle
    /\ output_dir \in OutputDirs
    /\ \E files \in FileSystems :
           /\ mkdir(files, output_dir).ok
           /\ disk = mkdir(files, output_dir).disk

\* The state after a service operation: its result and the external calls it made.
Completes(name, u, req, replies, result) ==
    /\ op' = name
    /\ url' = u
    /\ request' = req
    /\ reported' = SubSeq(replies, 1, result.extracts)
    /\ outcome' = IF result.ok THEN "ok" ELSE "error"
    /\ ret' = result.value
    /\ extract_calls' = result.extracts
    /\ download_calls' = result.downloads

\* The preview of the CLI's download_video, up to the confirmation prompt.
Preview(c, reply) ==
    LET result == preview_download(output_dir, c.url, c.quality, c.audio_only, reply)
    IN /\ Completes("preview_download", c.url,
                    [quality |-> c.quality, audio_only |-> c.audio_only,
                     output_format |-> None],
                    <<reply>>, result)
       /\ cli' = IF result.ok
                 THEN [c EXCEPT !.pc = "confirm"]
                 ELSE \* "Error: ..."
                      [c EXCEPT !.pc = "done", !.status = "returned"]

GetVideoInfo ==
    /\ op = "idle"
    /\ \E u \in Urls, reply \in ExtractReplies :
           Completes("get_video_info", u, NoRequest, <<reply>>, get_video_info(u, reply))
    /\ UNCHANGED <<ydl_opts, output_dir, menu, transfers, cli, disk, gui>>

GetAvailableFormats ==
    /\ op = "idle"
    /\ \E u \in Urls, reply \in ExtractReplies :
           Completes("get_available_formats", u, NoRequest, <<reply>>,
                     get_available_formats(u, reply))
    /\ UNCHANGED <<ydl_opts, output_dir, menu, transfers, cli, disk, gui>>

\* The sort of get_available_formats applied to the list it returned.
SortAgain ==
    /\ op = "get_available_formats"
    /\ outcome = "ok"
    /\ op' = "sort_again"
    /\ request' = [sorted |-> ret]
    /\ ret' = sort_formats(ret)
    /\ UNCHANGED <<url, reported, outcome, extract_calls, download_calls,
                   ydl_opts, output_dir, menu, transfers, cli, disk, gui>>

GetFormatSelectionOptions ==
    /\ op = "idle"
    /\ \E u \in Urls, reply \in ExtractReplies :
           Completes("get_format_selection_options", u, NoRequest, <<reply>>,
                     get_format_selection_options(u, reply))
    /\ UNCHANGED <<ydl_opts, output_dir, menu, transfers, cli, disk, gui>>

GetDownloadOptions ==
    /\ op = "idle"
    /\ \E q \in Qualities, a \in BOOLEAN, f \in OutputFormats :
           Completes("get_download_options", <<>>,
                     [quality |-> q, audio_only |-> a, output_format |-> f], <<>>,
                     Return(get_download_options(output_dir, q, a, f), 0, 0))
    /\ UNCHANGED <<ydl_opts, output_dir, menu, transfers, cli, disk, gui>>

PreviewDownload ==
    /\ op = "idle"
    /\ \E u \in Urls, q \in Qualities, a \in BOOLEAN, reply \in InfoReplies :
           Completes("preview_download", u,
                     [quality |-> q, audio_only |-> a, output_format |-> None], <<reply>>,
                     preview_download(output_dir, u, q, a, reply))
    /\ UNCHANGED <<ydl_opts, output_dir, menu, transfers, cli, disk, gui>>

DownloadVideo ==
    /\ op = "idle"
    /\ \E u \in Urls, q \in Qualities, a \in BOOLEAN, f \in OutputFormats,
          cb \in ProgressCallbacks, reply \in InfoReplies, dl \in DownloadReplies :
           LET result == download_video(output_dir, u, q, a, f, reply, dl)
           IN /\ Completes("download_video", u,
                           [quality |-> q, audio_only |-> a, output_format |-> f],
                           <<reply>>, result)
              \* the options exist once the URL has passed validation
              /\ ydl_opts' = IF validate_url(u)
                             THEN Some(download_opts(output_dir, q, a, f, cb))
                             ELSE None
              /\ transfers' = [i \in 1..result.downloads |-> dl]
    /\ UNCHANGED <<output_dir, menu, cli, disk, gui>>

\* interactive_format_selection called, up to its first prompt.
MenuOpen ==
    /\ op = "idle"
    /\ \E u \in Urls, first \in InfoReplies, second \in ExtractReplies :
           LET opened == menu_open(u, first, second)
           IN /\ Completes("interactive_format_selection", u, NoRequest,
                           opened.replies, opened.result)
              /\ menu' = opened.menu
    /\ UNCHANGED <<ydl_opts, output_dir, transfers, cli, disk, gui>>

\* One pass of the prompt loop.
MenuChoice ==
    /\ menu.pc = "prompt"
    /\ \E input \in MenuInputs :
           LET step == menu_step(menu.options, menu.cancel_num, input)
           IN /\ menu' = [menu EXCEPT !.pc = step.pc, !.input = input]
              /\ ret' = step.ret
    /\ UNCHANGED <<op, url, request, reported, outcome, extract_calls, download_calls,
                   ydl_opts, output_dir, transfers, cli, disk, gui>>

Finish ==
    /\ op # "idle"
    /\ menu.pc # "prompt"
    /\ cli.pc \notin {"menu", "confirm"}
    /\ op' = "idle"
    /\ url' = <<>>
    /\ request' = NoRequest
    /\ reported' = <<>>
    /\ outcome' = "none"
    /\ ret' = <<>>
    /\ extract_calls' = 0
    /\ download_calls' = 0
    /\ ydl_opts' = None
    /\ menu' = MenuOff
    /\ transfers' = <<>>
    /\ cli' = CliOff
    /\ UNCHANGED <<output_dir, disk, gui>>

\* main() up to the first prompt: the arguments are parsed and the URL is
\* checked, then download_video of the CLI opens the menu (interactive) or
\* shows the preview.
CliMain ==
    /\ op = "idle"
    /\ \E u \in CliUrls, q \in CliQualities, a \in BOOLEAN, f \in CliFormats,
          i \in BOOLEAN, first \in InfoReplies, second \in CliMenuReplies :
           LET c == [CliOff EXCEPT !.url = u, !.quality = q, !.audio_only = a,
                                   !.output_format = f, !.dir = output_dir,
                                   !.args = [quality |-> q, audio_only |-> a,
                                             output_format |-> f]]
               req == [quality |-> q, audio_only |-> a, output_format |-> f]
           IN IF q \notin QualityChoices
              THEN \* argparse: invalid choice, exit status 2
                   /\ Completes("cli_main", u, req, <<>>, Raise("SystemExit", <<"2">>, 0, 0))
                   /\ cli' = [c EXCEPT !.pc = "exit", !.status = "exit 2"]
                   /\ UNCHANGED menu
              ELSE IF ~url_accepted(u)
                   THEN /\ Completes("cli_main", u, req, <<>>,
                                     Raise("SystemExit", <<"1">>, 0, 0))
                        /\ cli' = [c EXCEPT !.pc = "exit", !.status = "exit 1"]
                        /\ UNCHANGED menu
                   ELSE IF i
                        THEN LET opened == menu_open(u, first, second)
                             IN /\ Completes("interactive_format_selection", u, NoRequest,
                                             opened.replies, opened.result)
                                /\ menu' = opened.menu
                                /\ cli' = IF opened.menu.pc = "prompt"
                                          THEN [c EXCEPT !.pc = "menu"]
                                          ELSE \* "Download cancelled by user."
                                               [c EXCEPT !.pc = "done", !.status = "returned"]
                        ELSE /\ Preview(c, first)
                             /\ UNCHANGED menu
    /\ UNCHANGED <<ydl_opts, output_dir, transfers, disk, gui>>

\* download_video of the CLI after the menu has returned.
CliAfterMenu ==
    /\ cli.pc = "menu"
    /\ menu.pc \in {"selected", "cancelled"}
    /\ IF ret = None
       THEN \* "Download cancelled by user."
            /\ cli' = [cli EXCEPT !.pc = "done", !.status = "returned"]
            /\ UNCHANGED <<op, url, request, reported, outcome, ret, extract_calls,
                           download_calls>>
       ELSE \E reply \in InfoReplies :
                LET selected == selection_args(cli.args, ret[1])
                IN Preview([cli EXCEPT !.quality = selected.quality,
                                       !.audio_only = selected.audio_only,
                                       !.output_format = selected.output_format,
                                       !.chosen = ret],
                           reply)
    /\ menu' = MenuOff
    /\ UNCHANGED <<ydl_opts, output_dir, transfers, disk, gui>>

\* The confirmation prompt and what follows it.
CliConfirm ==
    /\ cli.pc = "confirm"
    /\ \E answer \in ConfirmInputs, reply \in InfoReplies, dl \in DownloadReplies :
           IF answer.kind = "text" /\ proceeds(answer.text)
           THEN LET result == download_video(output_dir, cli.url, cli.quality,
                                             cli.audio_only, cli.output_format, reply, dl)
                IN /\ Completes("download_video", cli.url,
                                [quality |-> cli.quality, audio_only |-> cli.audio_only,
                                 output_format |-> cli.output_format],
                                <<reply>>, result)
                   /\ ydl_opts' = IF validate_url(cli.url)
                                  THEN Some(download_opts(output_dir, cli.quality,
                                                          cli.audio_only, cli.output_format,
                                                          Some("progress_hook")))
                                  ELSE None
                   /\ transfers' = [k \in 1..result.downloads |-> dl]
                   /\ cli' = [cli EXCEPT !.pc = "done", !.answer = answer,
                                         !.invoked = TRUE,
                                         !.downloads = @ + result.downloads,
                                         !.status = "returned"]
           ELSE \* "Download cancelled by user."; EOFError is printed as an
                \* error; KeyboardInterrupt leaves main
                /\ cli' = [cli EXCEPT !.pc = "done", !.answer = answer,
                                      !.status = IF answer.kind = "interrupt"
                                                 THEN "interrupted" ELSE "returned"]
                /\ UNCHANGED <<op, url, request, reported, outcome, ret, extract_calls,
                               download_calls, ydl_opts, transfers>>
    /\ UNCHANGED <<output_dir, menu, disk, gui>>

\* The options of app.py's download_video beside those of the service, for the
\* same directory and arguments.
AppBuildOptions ==
    /\ op = "idle"
    /\ \E q \in Qualities, a \in BOOLEAN, f \in OutputFormats :
           Completes("app_download_options", <<>>,
                     [quality |-> q, audio_only |-> a, output_format |-> f], <<>>,
                     Return([app |-> app_download_options(output_dir, q, a, f),
                             service |-> get_download_options(output_dir, q, a, f)],
                            0, 0))
    /\ UNCHANGED <<ydl_opts, output_dir, menu, transfers, cli, disk, gui>>

\* What a call that only touches the directory leaves behind.
DirectoryResult(made) ==
    IF made.ok
    THEN Return(None, 0, 0)
    ELSE Raise("FileNotFoundError", <<"No such file or directory">>, 0, 0)

SetOutputDirectory ==
    /\ op = "idle"
    /\ \E dir \in DirArgs :
           LET made == set_output_directory(disk, dir)
           IN /\ Completes("set_output_directory", <<>>, [dir |-> dir], <<>>,
                           DirectoryResult(made))
              /\ output_dir' = made.output_dir
              /\ disk' = made.disk
    /\ UNCHANGED <<ydl_opts, menu, transfers, cli, gui>>

\* YouTubeDownloaderService(dir): the service is replaced by a new one; when
\* the constructor raises there is no new one.
Construct ==
    /\ op = "idle"
    /\ \E dir \in DirArgs :
           LET made == set_output_directory(disk, dir)
           IN /\ Completes("__init__", <<>>, [dir |-> dir], <<>>, DirectoryResult(made))
              /\ output_dir' = IF made.ok THEN made.output_dir ELSE output_dir
              /\ disk' = made.disk
    /\ UNCHANGED <<ydl_opts, menu, transfers, cli, gui>>

LauncherMain ==
    /\ op = "idle"
    /\ \E argv \in CommandLines :
           Completes("launcher_main", <<>>, [argv |-> argv], <<>>,
                     Return(launcher_main(argv), 0, 0))
    /\ UNCHANGED <<ydl_opts, output_dir, menu, transfers, cli, disk, gui>>

Next ==
    \/ LauncherMain
    \/ AppBuildOptions
    \/ CliMain
    \/ CliAfterMenu
    \/ CliConfirm
    \/ GetVideoInfo
    \/ GetAvailableFormats
    \/ SortAgain
    \/ GetFormatSelectionOptions
    \/ GetDownloadOptions
    \/ PreviewDownload
    \/ DownloadVideo
    \/ MenuOpen
    \/ MenuChoice
    \/ Finish

Spec == Init /\ [][Next]_vars

\* The service alone, with its directory set and set again.
NextDir ==
    \/ Construct
    \/ SetOutputDirectory
    \/ GetVideoInfo
    \/ GetAvailableFormats
    \/ GetFormatSelectionOptions
    \/ GetDownloadOptions
    \/ PreviewDownload
    \/ DownloadVideo
    \/ Finish

SpecDir == InitDir /\ [][NextDir]_vars

-----------------------------------------------------------------------------
(* The GUI's state machine: the interface thread's handlers, the background
   threads' steps, and the callbacks the threads post to the interface thread *)

\* The GUI constructs its service with the default directory.
InitGui ==
    /\ Idle
    /\ output_dir = <<"downloads">>
    /\ \E files \in FileSystems : disk = mkdir(files, output_dir).disk

\* What the GUI's steps leave alone.
service_trace ==
    <<op, url, request, reported, outcome, ret, extract_calls, download_calls,
      ydl_opts, menu, transfers, cli>>

GuiEnterUrl ==
    /\ \E u \in GuiUrls : gui' = [gui EXCEPT !.url = u]
    /\ UNCHANGED <<service_trace, output_dir, disk>>

GuiBrowseOutputDir ==
    /\ \E d \in GuiDirs : gui' = [gui EXCEPT !.out = d]
    /\ UNCHANGED <<service_trace, output_dir, disk>>

GuiGetVideoInfo ==
    /\ gui.get_info_btn = "normal"
    /\ Room(gui, 2)
    /\ gui' = gui_get_video_info(gui)
    /\ UNCHANGED <<service_trace, output_dir, disk>>

GuiLoadFormats ==
    /\ gui.load_formats_btn = "normal"
    /\ Room(gui, 2)
    /\ gui' = load_formats(gui)
    /\ UNCHANGED <<service_trace, output_dir, disk>>

GuiRefreshFormats ==
    /\ gui.refresh_btn = "normal"
    /\ Room(gui, 2)
    /\ gui' = load_formats(gui)
    /\ UNCHANGED <<service_trace, output_dir, disk>>

GuiFormatSelect ==
    /\ \E index \in 1..Len(gui.formats_data) : gui' = on_format_select(gui, index)
    /\ UNCHANGED <<service_trace, output_dir, disk>>

GuiModeChange ==
    /\ gui' = on_mode_change(gui)
    /\ UNCHANGED <<service_trace, output_dir, disk>>

GuiStartDownload ==
    /\ gui.download_btn = "normal"
    /\ Room(gui, 1)
    /\ gui' = start_download(gui)
    /\ UNCHANGED <<service_trace, output_dir, disk>>

\* A fetch_info or fetch_formats thread runs: it calls the service and posts
\* its callbacks.
GuiFetch ==
    /\ \E i \in 1..Len(gui.workers), reply \in GuiReplies :
           /\ gui.workers[i].kind \in {"info", "formats"}
           /\ gui' = Leave(gui, i,
                           IF gui.workers[i].kind = "info"
                           THEN fetch_info(gui.workers[i], reply)
                           ELSE fetch_formats(gui.workers[i], reply))
    /\ UNCHANGED <<service_trace, output_dir, disk>>

\* A download thread takes its next step: set_output_directory, a read of
\* self.selected_format, or the call of download_video and the callback.
GuiDownloadThread ==
    /\ \E i \in 1..Len(gui.workers) :
         LET w == gui.workers[i]
         IN /\ w.kind = "download"
            /\ CASE w.pc = "set_dir" ->
                     LET made == set_output_directory(disk, w.dir)
                     IN /\ output_dir' = made.output_dir
                        /\ disk' = made.disk
                        /\ gui' = IF made.ok
                                  THEN [gui EXCEPT !.workers[i].pc = "read_type"]
                                  ELSE Leave(gui, i, <<Ended(w, FALSE, <<>>,
                                                             "FileNotFoundError")>>)
                 [] w.pc = "call" ->
                     /\ \E reply \in GuiReplies, dl \in GuiDownloadReplies :
                           LET result == download_video(output_dir, w.url, w.quality,
                                                        w.audio_only, w.output_format,
                                                        reply, dl)
                           IN gui' = Leave(gui, i,
                                           <<Ended(w, TRUE, output_dir,
                                                   IF result.ok THEN "" ELSE "Exception")>>)
                     /\ UNCHANGED <<output_dir, disk>>
                 [] OTHER ->
                     LET read == download_read(w, gui.selected_format)
                     IN /\ gui' = IF read.ok
                                  THEN [gui EXCEPT !.workers[i] = read.w]
                                  ELSE Leave(gui, i, <<Ended(w, FALSE, <<>>, "TypeError")>>)
                        /\ UNCHANGED <<output_dir, disk>>
    /\ UNCHANGED service_trace

\* The interface thread runs the callback posted first.
GuiAfter ==
    /\ gui.posted # <<>>
    /\ \E stale \in BOOLEAN :
           gui' = [run_callback(gui, Head(gui.posted), stale) EXCEPT !.posted = Tail(@)]
    /\ UNCHANGED <<service_trace, output_dir, disk>>

NextGui ==
    \/ GuiEnterUrl
    \/ GuiBrowseOutputDir
    \/ GuiGetVideoInfo
    \/ GuiLoadFormats
    \/ GuiRefreshFormats
    \/ GuiFormatSelect
    \/ GuiModeChange
    \/ GuiStartDownload
    \/ GuiFetch
    \/ GuiDownloadThread
    \/ GuiAfter

SpecGui == InitGui /\ [][NextGui]_vars

\* Every thread that can take a step does, and every posted callback is run:
\* the threads are scheduled by the interpreter and the interface thread runs
\* its event loop. Nothing is assumed of what the user does.
FairSpecGui == SpecGui /\ WF_vars(GuiFetch) /\ WF_vars(GuiDownloadThread) /\ WF_vars(GuiAfter)

-----------------------------------------------------------------------------
(* Vocabulary of the properties *)

UrlOperations ==
    {"get_video_info", "get_available_formats", "get_format_selection_options",
     "preview_download", "download_video"}

\* The catalog the extractor reported during the call.
Catalog == Get(reported[1].info, "formats", <<>>)

\* A codec field names a codec: it is there, holds a value, and is not "none".
CodecPresent(f, key) == key \in DOMAIN f /\ f[key] # None /\ f[key] # Some("none")

KindOf(f) ==
    IF CodecPresent(f, "vcodec") /\ CodecPresent(f, "acodec") THEN "Video+Audio"
    ELSE IF CodecPresent(f, "vcodec") THEN "Video Only"
    ELSE IF CodecPresent(f, "acodec") THEN "Audio Only"
    ELSE "drop"

\* How often x occurs in the sequence s.
Count(s, x) == Cardinality({i \in 1..Len(s) : s[i] = x})

\* The rank key: kind priority, and the height with a missing one counted as 0.
Rank(fmt) ==
    [priority |-> CASE fmt.type = "Video+Audio" -> 0
                    [] fmt.type = "Video Only" -> 1
                    [] OTHER -> 2,
     height |-> IF fmt.height = None THEN 0 ELSE fmt.height[1]]

\* a is ranked strictly before b: lower priority number, then greater height.
RankedBefore(a, b) ==
    \/ Rank(a).priority < Rank(b).priority
    \/ Rank(a).priority = Rank(b).priority /\ Rank(a).height > Rank(b).height

\* The first position of s whose element satisfies Test.
FirstIndex(s, Test(_)) == CHOOSE i \in 1..Len(s) : Test(s[i]) /\ \A j \in 1..(i - 1) : ~Test(s[j])

\* The sorted catalog the options are built from.
SortedCatalog == sort_formats(process_formats(Catalog))

IsVideo(f) == f.type \in {"Video+Audio", "Video Only"}

OptionsReturned == op = "get_format_selection_options" /\ outcome = "ok"

-----------------------------------------------------------------------------
(* C1 *)

\* C1: every service operation that takes a URL, given a URL that is empty or
\* contains neither "youtube.com" nor "youtu.be", raises an error, and neither
\* the extractor nor the downloader is invoked or even constructed in that call.
C1_InvalidUrlRejected ==
    (op \in UrlOperations /\ (url = <<>> \/ (~Contains(url, YoutubeCom) /\ ~Contains(url, YoutuBe))))
        => /\ outcome = "error"
           /\ extract_calls = 0
           /\ download_calls = 0
           /\ reported = <<>>
           /\ ydl_opts = None

C1_Witness ==
    /\ op = "download_video"
    /\ url = UrlNearMiss
    /\ outcome = "error"
    /\ ret.type = "ValueError"

-----------------------------------------------------------------------------
(* C2 *)

\* C2: get_available_formats gives every raw descriptor the kind its codec
\* fields call for, a field that is missing or holds no value counting as not
\* present, and returns exactly the descriptors whose kind is not "drop".
C2_ClassifiedByPresentCodecs ==
    (op = "get_available_formats" /\ outcome = "ok")
        => /\ \A i \in 1..Len(ret) : ret[i].type = KindOf(ret[i].raw_format)
           /\ \A d \in Descriptors :
                  Count([i \in 1..Len(ret) |-> ret[i].raw_format], d)
                      = IF KindOf(d) = "drop" THEN 0 ELSE Count(Catalog, d)

-----------------------------------------------------------------------------
(* C3 *)

\* C3: the list get_available_formats returns is ordered by the rank key, and
\* for every rank key the returned formats with that key are the kept
\* descriptors with that key in the order the extractor reported them (so the
\* list is a permutation of the kept descriptors and ties keep their order).
C3_StableSortByRank ==
    (op = "get_available_formats" /\ outcome = "ok")
        => LET kept == process_formats(Catalog)
           IN /\ Len(ret) = Len(kept)
              /\ \A i, j \in 1..Len(ret) : i < j => ~RankedBefore(ret[j], ret[i])
              /\ \A k \in {Rank(kept[i]) : i \in 1..Len(kept)} :
                     SelectSeq(ret, LAMBDA f : Rank(f) = k)
                         = SelectSeq(kept, LAMBDA f : Rank(f) = k)

\* The extractor reported a lower-ranked stream first and two different
\* streams of equal rank; the sort moved the first and kept the tie's order.
C3_Witness ==
    /\ op = "get_available_formats"
    /\ outcome = "ok"
    /\ Catalog = <<A48, V1080, A128, VA720w, A160, VA720, A50>>
    /\ ret[1].raw_format = VA720w
    /\ ret[2].raw_format = VA720

-----------------------------------------------------------------------------
(* C4 *)

\* C4: sorting an already sorted format list again leaves it as it was.
C4_SortIdempotent == op = "sort_again" => ret = request.sorted

\* A list with two different formats of equal rank was sorted again.
C4_Witness ==
    /\ op = "sort_again"
    /\ \E i \in 1..(Len(ret) - 1) : Rank(ret[i]) = Rank(ret[i + 1]) /\ ret[i] # ret[i + 1]

-----------------------------------------------------------------------------
(* C5 *)

\* C5: the returned options never hold two video options of the same height
\* and never more than three audio options.
C5_OptionsDeduplicated ==
    OptionsReturned
        => /\ \A i, j \in 1..Len(ret) :
                  (i # j /\ ret[i].type = "video" /\ ret[j].type = "video")
                      => ret[i].format_info.height # ret[j].format_info.height
           /\ Cardinality({i \in 1..Len(ret) : ret[i].type = "audio"}) <= 3

\* The catalog had two video streams of one height and four different audio streams.
C5_Witness ==
    /\ OptionsReturned
    /\ Catalog = <<A48, V1080, A128, VA720w, A160, VA720, A50>>
    /\ Len(ret) = 5

-----------------------------------------------------------------------------
(* C6 *)

-----------------------------------------------------------------------------
(* C7 *)

-----------------------------------------------------------------------------
(* C8 *)

\* C8: the options' ordinals are 1, 2, ..., len(options), every video option
\* comes before every audio option, and the cancel ordinal of the CLI menu is
\* len(options) + 1, which is the ordinal of no option.
C8_OrdinalsSequential ==
    /\ OptionsReturned
           => /\ \A i \in 1..Len(ret) : ret[i].num = i
              /\ \A i, j \in 1..Len(ret) :
                     (ret[i].type = "audio" /\ ret[j].type = "video") => j < i
    /\ menu.pc = "prompt"
           => /\ \A i \in 1..Len(menu.options) : menu.options[i].num = i
              /\ menu.cancel_num = Len(menu.options) + 1
              /\ \A i \in 1..Len(menu.options) : menu.options[i].num # menu.cancel_num
              /\ menu.options = <<>> => menu.cancel_num = 1

\* The menu shows video and audio options and the cancel ordinal after them.
C8_Witness ==
    /\ menu.pc = "prompt"
    /\ Len(menu.options) = 5
    /\ menu.options[2].type = "video"
    /\ menu.options[3].type = "audio"
    /\ menu.cancel_num = 6

-----------------------------------------------------------------------------
(* C9 *)

HeightCap(n) == <<"height", "<=", n>>

\* The alternative constrains the height of one of its streams.
Constrained(alt) ==
    \E i \in 1..Len(Streams(alt)) : Contains(Streams(alt)[i], <<"height">>)

BestRequested ==
    op = "get_download_options" /\ request.quality = "best" /\ ~request.audio_only

\* C9: for quality "best" (not audio-only) the first alternative of the
\* selection expression caps the height at 2160 and a later alternative
\* constrains no height.
C9_BestCappedWithFallback ==
    BestRequested
        => LET alts == Alternatives(ret.format)
           IN /\ \E i \in 1..Len(Streams(alts[1])) :
                     Filter(Streams(alts[1])[i]) = HeightCap("2160")
              /\ \E k \in 2..Len(alts) : ~Constrained(alts[k])

C9_Witness ==
    /\ BestRequested
    /\ Len(Alternatives(ret.format)) = 4
    /\ request.output_format = Some("mkv")

-----------------------------------------------------------------------------
(* C10 *)

\* One combined stream ("best") with the given filter.
Combined(alt, filter) ==
    /\ Len(Streams(alt)) = 1
    /\ Selector(Streams(alt)[1]) = "best"
    /\ Filter(Streams(alt)[1]) = filter

\* Best video and best audio fetched separately and merged, the video with
\* the given filter.
Separate(alt, filter) ==
    /\ Len(Streams(alt)) = 2
    /\ Selector(Streams(alt)[1]) = "bestvideo"
    /\ Selector(Streams(alt)[2]) = "bestaudio"
    /\ Filter(Streams(alt)[1]) = filter

\* C10 as stated: combined capped at 2160, then separate capped at 2160, then
\* the unconstrained combined stream.
C10_CombinedFirst ==
    BestRequested
        => LET alts == Alternatives(ret.format)
           IN /\ Len(alts) = 3
              /\ Combined(alts[1], HeightCap("2160"))
              /\ Separate(alts[2], HeightCap("2160"))
              /\ Combined(alts[3], <<>>)

\* C10, amended: for quality "best" the alternatives are, in order of
\* preference, separately fetched best video capped at 2160 plus best audio,
\* a combined stream capped at 2160, separately fetched unconstrained best
\* video plus best audio, and the unconstrained best combined stream.
C10_SeparateFirst ==
    BestRequested
        => LET alts == Alternatives(ret.format)
           IN /\ Len(alts) = 4
              /\ Separate(alts[1], HeightCap("2160"))
              /\ Filter(Streams(alts[1])[2]) = <<>>
              /\ Combined(alts[2], HeightCap("2160"))
              /\ Separate(alts[3], <<>>)
              /\ Filter(Streams(alts[3])[2]) = <<>>
              /\ Combined(alts[4], <<>>)

C10_Witness ==
    /\ BestRequested
    /\ request.output_format = None
    /\ Alternatives(ret.format)[4] = <<"best">>

-----------------------------------------------------------------------------
(* C11 *)

\* The quality tokens that are numbers, and "4k".
NumericQualities == {"4k", "2160", "1440", "1080", "720", "480", "360", "240", "0", "-5"}

\* The height a numeric quality token stands for, as it is written.
HeightOf(quality) == IF quality = "4k" THEN "2160" ELSE quality

OptionsBuilt == op = "get_download_options" /\ outcome = "ok"

\* The filters of all streams of all alternatives of an expression.
FiltersOf(expr) ==
    {Filter(Streams(Alternatives(expr)[a])[i]) :
        a \in 1..Len(Alternatives(expr)), i \in 1..2} \ {<<>>}

\* C11: for a numeric quality n (not audio-only) the expression prefers
\* separately fetched best video of height <= n plus best audio, every later
\* alternative is a combined stream of height <= n, and every filter in it is
\* height<=n: none compares with "=".
C11_NumericCapped ==
    (OptionsBuilt /\ ~request.audio_only /\ request.quality \in NumericQualities)
        => LET alts == Alternatives(ret.format)
               n == HeightOf(request.quality)
           IN /\ Len(alts) >= 2
              /\ Separate(alts[1], HeightCap(n))
              /\ Filter(Streams(alts[1])[2]) = <<>>
              /\ \A k \in 2..Len(alts) : Combined(alts[k], HeightCap(n))
              /\ \A i \in 1..Len(ret.format) : ret.format[i] \notin {"=", "=="}

C11_Witness ==
    /\ OptionsBuilt
    /\ ~request.audio_only
    /\ request.quality = "240"
    /\ Alternatives(ret.format)[2] = <<"best", "[", "height", "<=", "240", "]">>

-----------------------------------------------------------------------------
(* C12 *)

ExtractAudio(codec) ==
    [key |-> "FFmpegExtractAudio", preferredcodec |-> codec, preferredquality |-> "192"]

\* C12: an audio-only request that names no output format selects the best
\* audio stream first and asks for exactly one post-processing step, the
\* extraction of audio to "mp3" at quality "192", whatever the quality token.
C12_AudioDefaultsToMp3 ==
    (OptionsBuilt /\ request.audio_only /\ ~TruthyText(request.output_format))
        => /\ Alternatives(ret.format)[1] = <<"bestaudio">>
           /\ "postprocessors" \in DOMAIN ret
           /\ ret.postprocessors = <<ExtractAudio("mp3")>>

C12_Witness ==
    /\ OptionsBuilt
    /\ request.audio_only
    /\ request.output_format = None
    /\ request.quality = "1080"
    /\ ret.postprocessors[1].preferredcodec = "mp3"

-----------------------------------------------------------------------------
(* C13 *)

\* C13: with an output format, exactly one post-processing step is requested:
\* for a video request the conversion of the container to that format, for an
\* audio-only request the extraction of audio to that format at quality "192";
\* a video request without an output format has no post-processing at all.
C13_OnePostprocessor ==
    OptionsBuilt
        => /\ (TruthyText(request.output_format) /\ ~request.audio_only)
                  => /\ "postprocessors" \in DOMAIN ret
                     /\ ret.postprocessors =
                            <<[key |-> "FFmpegVideoConvertor",
                               preferedformat |-> request.output_format[1]]>>
           /\ (TruthyText(request.output_format) /\ request.audio_only)
                  => /\ "postprocessors" \in DOMAIN ret
                     /\ ret.postprocessors = <<ExtractAudio(request.output_format[1])>>
           /\ (~TruthyText(request.output_format) /\ ~request.audio_only)
                  => "postprocessors" \notin DOMAIN ret

C13_Witness ==
    /\ OptionsBuilt
    /\ ~request.audio_only
    /\ request.output_format = Some("mkv")
    /\ ret.postprocessors[1].key = "FFmpegVideoConvertor"

-----------------------------------------------------------------------------
(* C14 *)

\* The numeric quality tokens whose number is zero or negative.
NonPositiveQualities == {"0", "-5"}

\* C14: get_download_options fails exactly when the requested numeric height
\* is zero or negative; best, worst, audio-only and every positive height
\* produce an expression.
C14_NonPositiveHeightRejected ==
    op = "get_download_options"
        => (outcome = "error"
                <=> (~request.audio_only /\ request.quality \in NonPositiveQualities))

-----------------------------------------------------------------------------
(* C16 *)

Downloading == op = "download_video"

\* The extraction of the call was made and it succeeded.
Extracted == Len(reported) = 1 /\ reported[1].ok

\* C16: one call of download_video invokes the downloader at most once, and
\* exactly once when the URL is valid and the extraction succeeds; a failed
\* extraction or download is not followed by another invocation.
C16_DownloadedOnce ==
    Downloading
        => /\ download_calls <= 1
           /\ Len(transfers) = download_calls
           /\ extract_calls <= 1
           /\ (validate_url(url) /\ Extracted) <=> download_calls = 1

C16_Witness ==
    /\ Downloading
    /\ outcome = "error"
    /\ download_calls = 1
    /\ ~transfers[1].ok

-----------------------------------------------------------------------------
(* C17 *)

\* The failure of the external library that ended the call.
LibraryFailure == IF transfers # <<>> THEN transfers[1] ELSE reported[1]

\* C17: in a failed download_video (URL valid), the library's DownloadError is
\* reported as "Download Error: " followed by the library's message, and any
\* other failure as "Unexpected Error: " with its message.
C17_DownloadErrorDistinguished ==
    (Downloading /\ outcome = "error" /\ validate_url(url))
        => IF LibraryFailure.type = "DownloadError"
           THEN ret.msg = <<"Download Error: ", LibraryFailure.msg>>
           ELSE /\ ret.msg[1] = "Unexpected Error: "
                /\ ret.msg[Len(ret.msg)] = LibraryFailure.msg

-----------------------------------------------------------------------------
(* C18 *)

\* The directory part of the output filename template handed to the downloader.
TemplateDir == SubSeq(ydl_opts[1].outtmpl, 1, Len(ydl_opts[1].outtmpl) - 1)

\* C18: a successful download_video returns the title, uploader and duration of
\* the extracted metadata ("N/A", "N/A", 0 where the metadata has none) and,
\* as output_dir, the absolute path of the directory of the call's filename
\* template: the directory itself when it is absolute, else the directory
\* under the working directory.
C18_ResultFromMetadata ==
    (Downloading /\ outcome = "ok")
        => /\ ret.title = Get(reported[1].info, "title", "N/A")
           /\ ret.uploader = Get(reported[1].info, "uploader", "N/A")
           /\ ret.duration = Get(reported[1].info, "duration", 0)
           /\ ret.output_dir[1] = "/"
           /\ ret.output_dir \in {TemplateDir, Cwd \o TemplateDir}
           /\ TemplateDir = output_dir

C18_Witness ==
    /\ Downloading
    /\ outcome = "ok"
    /\ ret.title = "Title"
    /\ TemplateDir = <<"downloads">>
    /\ ret.output_dir = <<"/", "home", "user", "downloads">>

-----------------------------------------------------------------------------
(* C19 *)

\* The last thing typed at the menu is an ordinal of a listed option.
ValidOrdinal ==
    /\ menu.input.kind = "int"
    /\ 1 <= menu.input.n
    /\ menu.input.n <= Len(menu.options)

\* The last thing typed is the cancel ordinal, or the user broke off.
Cancels ==
    \/ menu.input.kind \in {"interrupt", "eof"}
    \/ menu.input.kind = "int" /\ menu.input.n = Len(menu.options) + 1

\* C19: after each input the menu has returned the option with the typed
\* ordinal if that is in 1..len(options), has returned no selection if the
\* input was the cancel ordinal or an interruption, and is prompting again,
\* with nothing selected, after any other input.
C19_MenuReprompts ==
    menu.input.kind # "none"
        => /\ ValidOrdinal
                 => /\ menu.pc = "selected"
                    /\ ret # None
                    /\ ret[1].num = menu.input.n
                    /\ \E i \in 1..Len(menu.options) : menu.options[i] = ret[1]
           /\ Cancels => (menu.pc = "cancelled" /\ ret = None)
           /\ (~ValidOrdinal /\ ~Cancels) => (menu.pc = "prompt" /\ ret = None)

C19_Witness ==
    /\ menu.pc = "prompt"
    /\ Len(menu.options) = 2
    /\ menu.input.kind = "int"
    /\ menu.input.n = 4

-----------------------------------------------------------------------------
(* C15 *)

\* The quality tokens that are neither best, worst, 4k nor a number.
UnknownQualities == {"hd"}

\* C15: a quality token that is neither a recognised token nor a number is
\* rejected before any external call, by the service's get_download_options and
\* download_video (stated for video requests with a valid URL) and by the
\* CLI: no selection expression is built from it.
C15_UnknownTokenRejected ==
    /\ (/\ op \in {"get_download_options", "download_video"}
        /\ request.quality \in UnknownQualities
        /\ ~request.audio_only)
           => /\ outcome = "error"
              /\ extract_calls = 0
              /\ download_calls = 0
              /\ ydl_opts = None
    /\ cli.quality \in UnknownQualities
           => /\ cli.pc = "exit"
              /\ extract_calls = 0
              /\ download_calls = 0

-----------------------------------------------------------------------------
(* C20 *)

\* The confirmation prompt was answered "y" or "yes", in any letter case.
AnsweredYes ==
    /\ cli.answer.kind = "text"
    /\ Lower(cli.answer.text) \in {<<"y">>, <<"y", "e", "s">>}

\* C20: in a run of the CLI the service's download_video is invoked, and the
\* downloader with it, only after the answer "y" or "yes" (any letter case) to
\* the confirmation prompt; while the menu or the prompt is open, and after a
\* cancelled menu or any other answer, no download has been invoked and the
\* service's output directory is the one the run started with.
C20_DownloadOnlyAfterYes ==
    /\ (cli.invoked \/ cli.downloads > 0) => AnsweredYes
    /\ (cli.pc \in {"menu", "confirm"} \/ (cli.pc = "done" /\ ~AnsweredYes))
           => /\ ~cli.invoked
              /\ cli.downloads = 0
              /\ download_calls = 0
              /\ transfers = <<>>
              /\ op # "download_video"
              /\ output_dir = cli.dir

C20_Witness ==
    /\ cli.pc = "done"
    /\ cli.answer = [kind |-> "text", text |-> <<"Y", "E", "S">>]
    /\ cli.invoked
    /\ cli.downloads = 1
    /\ cli.quality = "1080"

-----------------------------------------------------------------------------
(* C25 *)

\* The extraction of the call was made and it failed.
ExtractionFailed == Len(reported) = 1 /\ ~reported[1].ok

\* C25: when the extraction fails inside download_video, the downloader is not
\* invoked in that call, the extractor is not asked again, and the error
\* raised to the caller ends with the extractor's own message.
C25_ExtractionFailureSurfaced ==
    (Downloading /\ ExtractionFailed)
        => /\ outcome = "error"
           /\ download_calls = 0
           /\ transfers = <<>>
           /\ extract_calls = 1
           /\ ret.msg[Len(ret.msg)] = reported[1].msg

C25_Witness ==
    /\ Downloading
    /\ ExtractionFailed
    /\ reported[1].msg = "Name or service not known"
    /\ ret.msg = <<"Unexpected Error: ", "Error getting video info: ",
                   "Name or service not known">>

-----------------------------------------------------------------------------
(* C29 *)

\* C29: once an option has been chosen in the CLI's menu, the preview and
\* the download are requested with that option's quality and audio-only
\* flag, and the download with its output format: the height as text, not
\* audio-only and no output format for a video option; "best", audio-only and
\* the format's extension for an audio option.
C29_ChosenOptionUsed ==
    (cli.chosen # None /\ op \in {"preview_download", "download_video"})
        => LET option == cli.chosen[1]
           IN /\ request.quality = option.quality
              /\ request.audio_only = option.audio_only
              /\ op = "download_video"
                    => request.output_format =
                           IF option.type = "audio" THEN option.format_info.ext ELSE None
              /\ option.type = "video"
                    => /\ option.quality = StrNum(option.format_info.height)
                       /\ ~option.audio_only
              /\ option.type = "audio"
                    => /\ option.quality = "best"
                       /\ option.audio_only

C29_Witness ==
    /\ cli.chosen # None
    /\ op = "download_video"
    /\ cli.args = [quality |-> "720", audio_only |-> TRUE, output_format |-> Some("mkv")]
    /\ request = [quality |-> "1080", audio_only |-> FALSE, output_format |-> None]

-----------------------------------------------------------------------------
(* C30 *)

AppCompared == op = "app_download_options"

\* The options without the selection expression.
Rest(opts) == [k \in DOMAIN opts \ {"format"} |-> opts[k]]

\* The original statement: both build the same options.
C30_SameOptions == AppCompared => ret.app = ret.service

\* C30: app.py and the service build the same output template, merge format
\* and post-processing steps; the selection expressions are the same for
\* audio-only, "best" and "worst", and for every other quality the service's
\* expression is app.py's two alternatives followed by the second one again.
C30_SameUpToRepeatedAlternative ==
    AppCompared
        => /\ Rest(ret.app) = Rest(ret.service)
           /\ IF request.audio_only \/ request.quality \in {"best", "worst"}
              THEN ret.app.format = ret.service.format
              ELSE /\ Len(Alternatives(ret.app.format)) = 2
                   /\ ret.service.format =
                          ret.app.format \o <<"/">> \o Alternatives(ret.app.format)[2]

C30_Witness ==
    /\ AppCompared
    /\ request.quality = "720"
    /\ ~request.audio_only
    /\ Len(Alternatives(ret.app.format)) = 2
    /\ Len(Alternatives(ret.service.format)) = 3

-----------------------------------------------------------------------------
(* C24 *)

Launched == op = "launcher_main"

\* The command line has a word the launcher takes for --gui (for --cli).
GuiGiven == \E i \in 1..Len(request.argv) : request.argv[i] \in GuiFlags
CliGiven == \E i \in 1..Len(request.argv) : request.argv[i] \in CliFlags

\* C24: the launcher starts the CLI exactly when --cli is given and --gui is
\* not, and the GUI otherwise; the CLI's arguments are the words of the
\* command line that are neither flag, in their order.
C24_LauncherDispatch ==
    Launched
        => /\ ret.interface = IF CliGiven /\ ~GuiGiven THEN "cli" ELSE "gui"
           /\ ret.interface = "cli"
                 => Tail(ret.argv) =
                        SelectSeq(request.argv, LAMBDA w : w \notin GuiFlags \cup CliFlags)

C24_Witness ==
    /\ Launched
    /\ request.argv = <<"-c", "-i", "URL">>
    /\ ret = [interface |-> "cli", argv |-> <<"cli.py", "-i", "URL">>]

-----------------------------------------------------------------------------
(* C21 *)

DirectoryGiven == op \in {"set_output_directory", "__init__"}

\* C21: after the constructor or set_output_directory has been given a
\* directory, the call has not failed and the directory exists, whether or
\* not its parent existed before.
C21_DirectoryCreated ==
    DirectoryGiven => (outcome = "ok" /\ absolute(request.dir) \in disk)

-----------------------------------------------------------------------------
(* C23 *)

\* The operations of the service other than the two that are given a directory.
Operations ==
    {"get_video_info", "get_available_formats", "get_format_selection_options",
     "get_download_options", "preview_download", "download_video"}

\* C23: none of the service's other operations changes the output directory,
\* whether it returns or raises, and the filename template that
\* get_download_options returns lies in the directory current at the call.
C23_OnlySettersChangeDirectory ==
    /\ [][op' \in Operations => output_dir' = output_dir]_vars
    /\ [](op = "get_download_options"
              => SubSeq(ret.outtmpl, 1, Len(ret.outtmpl) - 1) = output_dir)

C23_Witness ==
    /\ op = "get_download_options"
    /\ output_dir = <<"out", "videos">>
    /\ ret.outtmpl = <<"out", "videos", "%(title)s.%(ext)s">>

-----------------------------------------------------------------------------
(* C22 *)

\* C22: at most one download thread of the GUI is running at any time.
C22_OneDownloadInFlight ==
    Cardinality({i \in 1..Len(gui.workers) : gui.workers[i].kind = "download"}) <= 1

-----------------------------------------------------------------------------
(* C26 *)

\* What the download thread asks of the service for a format: an audio format
\* is asked for as audio in its own extension, a video format by its height.
download_request(fmt) ==
    IF fmt.type = "Audio Only"
    THEN [quality |-> "best", audio_only |-> TRUE, output_format |-> fmt.ext]
    ELSE [quality |-> IF Truthy(fmt.height) THEN StrNum(fmt.height) ELSE "best",
          audio_only |-> FALSE,
          output_format |-> None]

\* C26: a download thread that has ended did not fail on the selection having
\* been cleared, and if it called the service, it asked for the format that
\* was selected when Download was pressed and the service wrote to the
\* directory that was chosen then.
C26_DownloadsWhatWasSelected ==
    \A k \in 1..Len(gui.posted) :
        gui.posted[k].fn \in {"download_complete", "download_error"}
            => /\ gui.posted[k].error # "TypeError"
               /\ gui.posted[k].request # None
                      => /\ gui.posted[k].request[1] = download_request(gui.posted[k].pressed)
                         /\ gui.posted[k].used[1] = gui.posted[k].dir

-----------------------------------------------------------------------------
(* C27 *)

\* C27: whenever the GUI's download button is enabled, a format is selected
\* (selected_format is not empty).
C27_EnabledMeansSelected ==
    gui.download_btn = "normal" => gui.selected_format # None

-----------------------------------------------------------------------------
(* C28 *)

\* A thread of the given kind is running.
Running(kind) == \E i \in 1..Len(gui.workers) : gui.workers[i].kind = kind

\* C28: every background operation of the GUI that is started is followed by
\* its button being enabled again: Get Video Info after a fetch of the video's
\* information, Load Available Formats after a load of the formats, Download
\* after a download, whether the operation succeeds or fails.
C28_ButtonsEnabledAgain ==
    /\ Running("info") ~> (gui.get_info_btn = "normal")
    /\ (Running("formats") /\ gui.load_formats_btn = "disabled")
           ~> (gui.load_formats_btn = "normal")
    /\ Running("download") ~> (gui.download_btn = "normal")

=============================================================================
